---- MODULE Spec2Model ----
(***************************************************************************)
(* Model of the Cumulocity Robot Framework keyword library                 *)
(* (src/Cumulocity/Cumulocity.py).                                         *)
(*                                                                         *)
(* The library object holds a cleanup list (_on_cleanup) and talks to an   *)
(* external client (device_mgmt) that owns the device context and the      *)
(* platform.  Every keyword is one synchronous call: it is modelled as one *)
(* action that records which client methods it called, how it ended and    *)
(* what it returned.  The client's answers (success, AssertionError, any   *)
(* other Exception) are inputs chosen with \E.                             *)
(***************************************************************************)
EXTENDS Integers, Sequences, FiniteSets, TLC

VARIABLES
    on_cleanup,   \* self._on_cleanup: the registered delete callbacks, in order
    created,      \* platform: every resource created so far, indexed by its id
    deleted,      \* platform: ids of the created resources that were deleted
    deleteLog,    \* history: every call of a resource's delete(), in order
    suites,       \* history: number of end_suite calls so far
    device_id,    \* device_mgmt.context.device_id (0: no device set)
    resolved,     \* history: id of the managed object the last successful
                  \* identity.assert_exists of a context keyword returned
    kw,           \* last operation: the keyword (or hook) that ran
    given,        \* last operation: the arguments it was called with
    sent,         \* last operation: the arguments it passed to the client
    got,          \* last operation: how its last client call ended
    calls,        \* last operation: client methods called, in order
    outcome,      \* last operation: "return" or "raise"
    error,        \* last operation: the exception that left it
    result,       \* last operation: the value returned
    suiteRun      \* last end_suite: what the loop did

vars == <<on_cleanup, created, deleted, deleteLog, suites, device_id, resolved,
          kw, given, sent, got, calls, outcome, error, result, suiteRun>>

(* ------------------------------ bounds -------------------------------- *)

\* Resources (binaries, profiles, templates) created in one behaviour.
MaxResources == 2

\* end_suite calls in one behaviour.
MaxSuites == 2

\* Managed objects (devices) of the platform that a test can name.
MaxDevices == 2

\* Resources created in one behaviour of SpecKeywords, which is about single
\* keyword invocations and not about the history of the cleanup list.
MaxKeywordResources == 1

(* ---------------------------- small helpers --------------------------- *)

NoError == [type |-> "", msg |-> "", args |-> <<>>]

NoResult == [tag |-> "none"]

NoArgs == [tag |-> "none"]

\* No client method was called.
NoAnswer == [tag |-> "none", val |-> <<>>]

\* The client call ended as `o` says, returning `val` when it returned.
Answer(o, val) == [tag |-> o, val |-> IF o = "ok" THEN val ELSE <<>>]

\* How a call of the external client can end.
ClientOutcomes == {"ok", "AssertionError", "Exception"}

\* The exception a failed client call raises.
ClientError(o) ==
    [type |-> o, msg |-> "raised by the client", args |-> <<"client">>]

(* --------------------- serialization of results ----------------------- *)

Str(s) == [tag |-> "str", val |-> s]

Dict(d) == [tag |-> "dict", val |-> d]

List(l) == [tag |-> "list", val |-> l]

Raw(item) == [tag |-> "raw", val |-> item]

\* An object of the external library: it has the to_json capability and an
\* id.  Its json is what the library's to_json() gives, which carries no
\* "id" key of its own here.
ClientObject(id, type) ==
    [truthy |-> TRUE, has_to_json |-> TRUE, has_id |-> TRUE, id |-> id,
     json |-> [k \in {"type"} |-> type]]

\* The id is not put into the json.
SetIdNever(data, id) == data

\* data["id"] = item.id
SetId(data, id) ==
    [k \in DOMAIN data \cup {"id"} |-> IF k = "id" THEN id ELSE data[k]]

\* _convert_item
ConvertItem(item) ==
    IF ~item.truthy THEN Str("")
    ELSE IF item.has_to_json
         THEN IF DOMAIN item.json # {} /\ item.has_id
              THEN Dict(SetId(item.json, item.id))
              ELSE Dict(item.json)
         ELSE Raw(item)

\* _convert_to_json of a list result
ConvertList(items) == List([i \in 1..Len(items) |-> ConvertItem(items[i])])

(* ------------------------ keyword arguments --------------------------- *)

\* **kwargs of a keyword: a dictionary from argument names to values.
NoKwargs == [k \in {} |-> 0]

\* The **kwargs a test gives to a keyword.
Kwargs == {NoKwargs, [k \in {"timeout"} |-> 30]}

\* The keywords that pass kwargs as one positional dictionary:
\* smartrest2.assert_exists(name, kwargs).
KwargsAsPositional ==
    {"Should Have SmartREST2 Template", "Should Not Have SmartREST2 Template"}

\* The keywords that accept **kwargs and do not use them.
KwargsNotUsed == {"Install Device Profile", "Create SmartREST2 Template"}

\* What the client method of keyword `k` receives of the keyword's kwargs:
\* positional arguments and keyword arguments.
PassKwargs(k, kwargs) ==
    IF k \in KwargsNotUsed THEN [args |-> <<>>, kwargs |-> NoKwargs]
    ELSE IF k \in KwargsAsPositional
         THEN [args |-> <<kwargs>>, kwargs |-> NoKwargs]
         ELSE [args |-> <<>>, kwargs |-> kwargs]

(* --------------------------- end of an operation ---------------------- *)

\* The operation returned `res` after calling the client methods `cs`.
Returns(k, cs, res) ==
    /\ kw' = k
    /\ calls' = cs
    /\ outcome' = "return"
    /\ error' = NoError
    /\ result' = res

\* The operation was left by the exception `err` after calling `cs`.
Raises(k, cs, err) ==
    /\ kw' = k
    /\ calls' = cs
    /\ outcome' = "raise"
    /\ error' = err
    /\ result' = NoResult

(* ------------------------------ end_suite ----------------------------- *)

\* The bound method <resource>.delete that a keyword appends to _on_cleanup.
DeleteCallback(id) == [id |-> id, callable |-> TRUE]

\* callable(func)
IsCallable(func) == func.callable

EmptyRun == [ran |-> <<>>, done |-> {}, warned |-> <<>>, escaped |-> FALSE]

\* func() with no try/except around it: the exception leaves the loop.
InvokeUnguarded(func, raised, run) ==
    [ran     |-> Append(run.ran, func.id),
     done    |-> IF raised THEN run.done ELSE run.done \cup {func.id},
     warned  |-> run.warned,
     escaped |-> raised]

\* try: func()  except Exception as ex: logger.warning(...)
InvokeGuarded(func, raised, run) ==
    [ran     |-> Append(run.ran, func.id),
     done    |-> IF raised THEN run.done ELSE run.done \cup {func.id},
     warned  |-> IF raised THEN Append(run.warned, func.id) ELSE run.warned,
     escaped |-> FALSE]

\* The loop of end_suite over the list, from its last entry to its first.
RECURSIVE CleanupLoopReversed(_, _, _, _)
CleanupLoopReversed(funcs, raises, i, run) ==
    IF i > Len(funcs) \/ run.escaped THEN run
    ELSE LET j == Len(funcs) + 1 - i
         IN  CleanupLoopReversed(funcs, raises, i + 1,
                                 InvokeGuarded(funcs[j], j \in raises, run))

\* for func in self._on_cleanup: if callable(func): <invoke>
\* `raises` holds the positions whose callback raises an Exception.
RECURSIVE CleanupLoop(_, _, _, _)
CleanupLoop(funcs, raises, i, run) ==
    IF i > Len(funcs) \/ run.escaped THEN run
    ELSE IF IsCallable(funcs[i])
         THEN CleanupLoop(funcs, raises, i + 1,
                          InvokeGuarded(funcs[i], i \in raises, run))
         ELSE CleanupLoop(funcs, raises, i + 1, run)

\* self._on_cleanup.clear() left out.
KeptList(funcs) == funcs

\* self._on_cleanup.clear()
ClearedList(funcs) == <<>>

\* The delete() calls of one end_suite, as entries of the history.
SuiteEntries(ran, n) == [i \in 1..Len(ran) |-> [id |-> ran[i], suite |-> n]]

end_suite ==
    /\ suites < MaxSuites
    /\ \E raises \in SUBSET (1..Len(on_cleanup)) :
         LET run == CleanupLoop(on_cleanup, raises, 1, EmptyRun)
         IN  /\ suiteRun' = [before |-> on_cleanup, raises |-> raises,
                             ran |-> run.ran, warned |-> run.warned,
                             escaped |-> run.escaped]
             /\ deleteLog' = deleteLog \o SuiteEntries(run.ran, suites + 1)
             /\ deleted' = deleted \cup run.done
             /\ on_cleanup' = IF run.escaped THEN on_cleanup
                              ELSE ClearedList(on_cleanup)
             /\ IF run.escaped
                THEN Raises("end_suite", <<>>,
                            [type |-> "Exception", msg |-> "raised by a callback",
                             args |-> <<>>])
                ELSE Returns("end_suite", <<>>, NoResult)
    /\ suites' = suites + 1
    /\ given' = NoArgs
    /\ sent' = NoArgs
    /\ got' = NoAnswer
    /\ UNCHANGED <<created, device_id, resolved>>

(* ------------------------ resource-creating keywords ------------------ *)

\* A resource of the platform as the history keeps it: what it is, how many
\* end_suite calls had run when it was created, the auto_delete it was
\* created with, and whether its delete was appended to _on_cleanup.
Resource(kind, auto, registered) ==
    [kind |-> kind, epoch |-> suites, auto_delete |-> auto,
     registered |-> registered]

NextResourceId == Len(created) + 1

\* binary_ref.url of the binary with this id
BinaryUrl(id) == <<"inventory/binaries", id>>

\* new_binary(..., delete=True, ...)
BinaryDeleteOnExitSet == TRUE

\* new_binary(..., delete=False, ...): the flag that makes the client's
\* context manager delete the binary when the with-block is left.
BinaryDeleteOnExit == FALSE

\* return binary_ref.binary.id
BinaryResultId(id) == [tag |-> "url", val |-> <<"id", id>>]

\* return binary_ref.url
BinaryResult(id) == [tag |-> "url", val |-> BinaryUrl(id)]

\* "Create Inventory Binary"
create_inventory_binary ==
    /\ Len(created) < MaxResources
    /\ \E o \in {"ok", "Exception"} :
         /\ got' = Answer(o, ClientObject(NextResourceId, "binary"))
         /\ IF o = "ok"
            THEN LET id == NextResourceId
                 IN  /\ created' = Append(created, Resource("binary", FALSE, TRUE))
                     /\ on_cleanup' = Append(on_cleanup, DeleteCallback(id))
                     /\ IF BinaryDeleteOnExit
                        THEN /\ deleted' = deleted \cup {id}
                             /\ deleteLog' =
                                  Append(deleteLog, [id |-> id, suite |-> 0])
                        ELSE UNCHANGED <<deleted, deleteLog>>
                     /\ Returns("Create Inventory Binary",
                                <<"binaries.new_binary">>, BinaryResult(id))
            ELSE /\ Raises("Create Inventory Binary", <<"binaries.new_binary">>,
                           ClientError(o))
                 /\ UNCHANGED <<created, on_cleanup, deleted, deleteLog>>
    /\ given' = NoArgs
    /\ sent' = [tag |-> "new_binary", delete |-> BinaryDeleteOnExit]
    /\ UNCHANGED <<suites, device_id, resolved, suiteRun>>

\* The profile argument: None, a dictionary, text that is json, other text.
ProfileArgs == {"none", "dict", "json", "not-json"}

\* self._on_cleanup.append(mo.delete) whatever auto_delete is
RegisterProfileAlways(funcs, id, auto_delete) ==
    Append(funcs, DeleteCallback(id))

\* if auto_delete: self._on_cleanup.append(mo.delete)
RegisterProfile(funcs, id, auto_delete) ==
    IF auto_delete THEN Append(funcs, DeleteCallback(id)) ELSE funcs

\* "Create Device Profile"
create_device_profile ==
    /\ Len(created) < MaxResources
    /\ \E profile \in ProfileArgs, auto_delete \in BOOLEAN,
          o \in {"ok", "Exception"} :
         /\ given' = [tag |-> "profile", profile |-> profile,
                      auto_delete |-> auto_delete]
         /\ sent' = NoArgs
         /\ got' = IF profile = "not-json" THEN NoAnswer
                   ELSE Answer(o, ClientObject(NextResourceId, "profile"))
         /\ IF profile = "not-json"
            THEN \* json.loads(profile) raises before the client is called
                 /\ Raises("Create Device Profile", <<>>,
                           [type |-> "ValueError", msg |-> "json.loads",
                            args |-> <<>>])
                 /\ UNCHANGED <<created, on_cleanup>>
            ELSE IF o = "ok"
            THEN LET id == NextResourceId
                     cleanup == RegisterProfile(on_cleanup, id, auto_delete)
                 IN  /\ created' = Append(created,
                            Resource("profile", auto_delete,
                                     cleanup # on_cleanup))
                     /\ on_cleanup' = cleanup
                     /\ Returns("Create Device Profile",
                                <<"device_profile.create">>,
                                ConvertItem(ClientObject(id, "profile")))
            ELSE /\ Raises("Create Device Profile", <<"device_profile.create">>,
                           ClientError(o))
                 /\ UNCHANGED <<created, on_cleanup>>
    /\ UNCHANGED <<deleted, deleteLog, suites, device_id, resolved,
                   suiteRun>>

\* A name argument: None, or a string (a sequence of characters).
NoName == [none |-> TRUE, str |-> <<>>]

Name(str) == [none |-> FALSE, str |-> str]

NameArgs == {NoName, Name(<<>>), Name(<<"m", "y">>), Name(<<"T", "S", "T">>)}

\* What random_name() of the client library can return.
RandomNames == {<<"a", "1">>, <<"b", "2">>}

\* The file argument: empty, the path of a json file, a path open() fails on.
FileArgs == {"", "template.json", "missing.json"}

TstPrefix == <<"T", "S", "T", "_">>

\* name = random_name(), without the prefix
TemplateNameNoPrefix(name, rnd) ==
    IF name.none \/ name.str = <<>> THEN rnd ELSE name.str

\* if not name: name = "TST_" + random_name()
TemplateName(name, rnd) ==
    IF name.none \/ name.str = <<>> THEN TstPrefix \o rnd ELSE name.str

\* "Create SmartREST2 Template"
create_smartrest2_template ==
    /\ Len(created) < MaxResources
    /\ \E name \in NameArgs, rnd \in RandomNames, file \in FileArgs,
          o \in {"ok", "Exception"} :
         /\ given' = [tag |-> "template", name |-> name, file |-> file]
         /\ got' = IF file = "missing.json" THEN NoAnswer
                   ELSE Answer(o, ClientObject(NextResourceId, "template"))
         /\ IF file = "missing.json"
            THEN \* open(file) raises before the client is called
                 /\ Raises("Create SmartREST2 Template", <<>>,
                           [type |-> "OSError", msg |-> "open", args |-> <<>>])
                 /\ sent' = NoArgs
                 /\ UNCHANGED <<created, on_cleanup>>
            ELSE IF o = "ok"
            THEN LET id == NextResourceId
                 IN  /\ created' = Append(created, Resource("template", FALSE, TRUE))
                     /\ sent' = [tag |-> "template",
                                 name |-> TemplateName(name, rnd)]
                     /\ on_cleanup' = Append(on_cleanup, DeleteCallback(id))
                     /\ Returns("Create SmartREST2 Template",
                                <<"smartrest2.create">>,
                                ConvertItem(ClientObject(id, "template")))
            ELSE /\ Raises("Create SmartREST2 Template", <<"smartrest2.create">>,
                           ClientError(o))
                 /\ sent' = [tag |-> "template",
                             name |-> TemplateName(name, rnd)]
                 /\ UNCHANGED <<created, on_cleanup>>
    /\ UNCHANGED <<deleted, deleteLog, suites, device_id, resolved,
                   suiteRun>>

(* --------------------------- device context --------------------------- *)

\* External identities a test can name.
ExternalIds == 1..MaxDevices

\* The id of the managed object an external identity belongs to.
MoIdOf(external_id) == MaxDevices + external_id

MoIds == {MoIdOf(e) : e \in ExternalIds}

\* No device set: context.device_id is None.
NoDevice == 0

\* The empty string given as a device id: no id, and not None.
EmptyDeviceId == -1

\* How identity.assert_exists(external_id, ...) can end: the platform is
\* shared, so an identity may be there at one call and gone at the next.
IdentityOutcomes(external_id) == ClientOutcomes

\* How inventory.assert_exists(device_id) can end: no managed object has
\* the id None or the empty id.
InventoryOutcomes(id) ==
    IF id \in {NoDevice, EmptyDeviceId}
    THEN {"AssertionError", "Exception"}
    ELSE ClientOutcomes

\* self.device_mgmt.set_device_id(external_id)
ExistsDeviceIdWrong(mo, external_id) == external_id

\* self.device_mgmt.set_device_id(managed_object.id) in _managed_object_exists
ExistsDeviceId(mo, external_id) == mo.id

\* self.device_mgmt.set_device_id(managed_object.id) in
\* _set_managed_object_context
SetContextDeviceId(mo, external_id) == mo.id

\* _managed_object_exists, behind "Device Should Exist" and "External
\* Identity Should Exist" (show_info only adds log lines)
managed_object_exists(k) ==
    /\ \E external_id \in ExternalIds :
         \E o \in IdentityOutcomes(external_id) :
            /\ given' = [tag |-> "identity", external_id |-> external_id]
            /\ sent' = [tag |-> "identity", external_id |-> external_id]
            /\ got' = Answer(o, ClientObject(MoIdOf(external_id), "device"))
            /\ IF o = "ok"
               THEN LET mo == ClientObject(MoIdOf(external_id), "device")
                    IN  /\ resolved' = mo.id
                        /\ device_id' = ExistsDeviceId(mo, external_id)
                        /\ Returns(k, <<"identity.assert_exists",
                                        "set_device_id">>, ConvertItem(mo))
               ELSE /\ Raises(k, <<"identity.assert_exists">>, ClientError(o))
                    /\ UNCHANGED <<resolved, device_id>>
    /\ UNCHANGED <<on_cleanup, created, deleted, deleteLog, suites, suiteRun>>

\* "Device Should Exist"
device_should_exist == managed_object_exists("Device Should Exist")

\* "External Identity Should Exist"
managed_object_should_exist ==
    managed_object_exists("External Identity Should Exist")

\* _set_managed_object_context, behind "Set Device" and "Set Managed Object"
set_managed_object_context(k) ==
    /\ \E external_id \in ExternalIds :
         \E o \in IdentityOutcomes(external_id) :
            /\ given' = [tag |-> "identity", external_id |-> external_id]
            /\ sent' = [tag |-> "identity", external_id |-> external_id]
            /\ got' = Answer(o, ClientObject(MoIdOf(external_id), "device"))
            /\ IF o = "ok"
               THEN LET mo == ClientObject(MoIdOf(external_id), "device")
                    IN  /\ resolved' = mo.id
                        /\ device_id' = SetContextDeviceId(mo, external_id)
                        /\ Returns(k, <<"identity.assert_exists",
                                        "set_device_id">>, ConvertItem(mo))
               ELSE /\ Raises(k, <<"identity.assert_exists">>, ClientError(o))
                    /\ UNCHANGED <<resolved, device_id>>
    /\ UNCHANGED <<on_cleanup, created, deleted, deleteLog, suites, suiteRun>>

\* "Set Device"
set_device == set_managed_object_context("Set Device")

\* "Set Managed Object"
set_managed_object == set_managed_object_context("Set Managed Object")

\* "Delete Managed Object And Device User"
delete_managed_object ==
    /\ \E external_id \in ExternalIds :
         \E o \in IdentityOutcomes(external_id), d \in {"ok", "Exception"} :
            /\ given' = [tag |-> "identity", external_id |-> external_id]
            /\ sent' = [tag |-> "identity", external_id |-> external_id]
            /\ got' = IF o # "ok" THEN Answer(o, <<>>) ELSE Answer(d, <<>>)
            /\ IF o # "ok"
               THEN Raises("Delete Managed Object And Device User",
                           <<"identity.assert_exists">>, ClientError(o))
               ELSE IF d # "ok"
               THEN Raises("Delete Managed Object And Device User",
                           <<"identity.assert_exists",
                             "inventory.delete_device_and_user">>,
                           ClientError(d))
               ELSE Returns("Delete Managed Object And Device User",
                            <<"identity.assert_exists",
                              "inventory.delete_device_and_user">>,
                            NoResult)
    /\ UNCHANGED <<on_cleanup, created, deleted, deleteLog, suites, device_id,
                   resolved, suiteRun>>

(* ----------------------------- measurements -------------------------- *)

\* Longest list of measurements the client returns.
MaxMeasurements == 2

\* The lists measurements.assert_count can return: objects of the client
\* library with to_json and an id.
MeasurementLists ==
    {[i \in 1..n |-> ClientObject(i, "measurement")] : n \in 0..MaxMeasurements}

\* fail(f"not enough measurements were found. args={ex.args}"): robot's fail
\* raises the runner's failure with this message
RobotFail(ex) ==
    [type |-> "robot.fail",
     msg  |-> "not enough measurements were found. args=",
     args |-> ex.args]

\* no except clause: the client's AssertionError leaves the keyword as it is
MeasurementFailureForwarded(ex) == ex

\* except AssertionError as ex: fail(...)
MeasurementFailure(ex) == RobotFail(ex)

\* "Device Should Have Measurements"
assert_measurement_count ==
    /\ \E o \in ClientOutcomes, found \in MeasurementLists :
         /\ got' = Answer(o, found)
         /\ IF o = "ok"
            THEN Returns("Device Should Have Measurements",
                         <<"measurements.assert_count">>, ConvertList(found))
            ELSE IF o = "AssertionError"
            THEN Raises("Device Should Have Measurements",
                        <<"measurements.assert_count">>,
                        MeasurementFailure(ClientError(o)))
            ELSE Raises("Device Should Have Measurements",
                        <<"measurements.assert_count">>, ClientError(o))
    /\ given' = NoArgs
    /\ sent' = NoArgs
    /\ UNCHANGED <<on_cleanup, created, deleted, deleteLog, suites, device_id,
                   resolved, suiteRun>>

(* --------------------------- device profiles -------------------------- *)

\* The device_id argument: None, the empty string or the id of a managed
\* object.
DeviceIdArgs == {NoDevice, EmptyDeviceId} \cup MoIds

\* The given device_id is used whatever it is.
DeviceIdGiven(arg) == arg

\* device_id or self.device_mgmt.context.device_id: None and the empty
\* string both give way to the context.
DeviceIdOrContext(arg) ==
    IF arg \in {NoDevice, EmptyDeviceId} THEN device_id ELSE arg

\* The context is used whatever device_id is given.
ContextDeviceId(arg) == device_id

\* if device_id is None: device_id = self.device_mgmt.context.device_id
DeviceIdIfNotNone(arg) == IF arg = NoDevice THEN device_id ELSE arg

\* "Install Device Profile": **kwargs is accepted and not used.
install_device_profile ==
    /\ \E arg \in DeviceIdArgs, kwargs \in Kwargs, o \in ClientOutcomes :
         /\ given' = [tag |-> "device", device_id |-> arg, kwargs |-> kwargs]
         /\ sent' = [tag |-> "device", device_id |-> DeviceIdOrContext(arg),
                     args |-> PassKwargs("Install Device Profile", kwargs).args,
                     kwargs |-> PassKwargs("Install Device Profile",
                                           kwargs).kwargs]
         /\ got' = Answer(o, ClientObject(1, "operation"))
         /\ IF o = "ok"
            THEN Returns("Install Device Profile", <<"device_profile.apply">>,
                         Raw(ClientObject(1, "operation")))
            ELSE Raises("Install Device Profile", <<"device_profile.apply">>,
                        ClientError(o))
    /\ UNCHANGED <<on_cleanup, created, deleted, deleteLog, suites, device_id,
                   resolved, suiteRun>>

\* The body shared by "Should Have Device Profile Installed" and "Should Not
\* Have Device Profile Installed": resolve the managed object, then assert.
profile_assertion(k, method) ==
    /\ \E arg \in DeviceIdArgs :
         \E o \in InventoryOutcomes(DeviceIdIfNotNone(arg)),
            a \in ClientOutcomes :
            /\ given' = [tag |-> "device", device_id |-> arg]
            /\ sent' = [tag |-> "device", device_id |-> DeviceIdIfNotNone(arg)]
            /\ got' = IF o # "ok" THEN Answer(o, <<>>)
                      ELSE Answer(a, ClientObject(DeviceIdIfNotNone(arg),
                                                  "device"))
            /\ IF o # "ok"
               THEN Raises(k, <<"inventory.assert_exists">>, ClientError(o))
               ELSE IF a # "ok"
               THEN Raises(k, <<"inventory.assert_exists", method>>,
                           ClientError(a))
               ELSE Returns(k, <<"inventory.assert_exists", method>>,
                            ConvertItem(ClientObject(DeviceIdIfNotNone(arg),
                                                     "device")))
    /\ UNCHANGED <<on_cleanup, created, deleted, deleteLog, suites, device_id,
                   resolved, suiteRun>>

\* "Should Have Device Profile Installed"
assert_device_profile_installed ==
    profile_assertion("Should Have Device Profile Installed",
                      "device_profile.assert_installed")

\* "Should Not Have Device Profile Installed"
assert_device_profile_not_installed ==
    profile_assertion("Should Not Have Device Profile Installed",
                      "device_profile.assert_not_installed")

\* the early return left out
NothingToDoNever(id) == FALSE

\* if not device_id: return
NothingToDo(id) == id \in {NoDevice, EmptyDeviceId}

\* "Log Device Info"
show_device_information ==
    /\ \E arg \in DeviceIdArgs :
         \E o \in InventoryOutcomes(DeviceIdIfNotNone(arg)) :
            /\ given' = [tag |-> "device", device_id |-> arg]
            /\ IF NothingToDo(DeviceIdIfNotNone(arg))
               THEN \* "No device has been set, nothing to do"
                    /\ sent' = NoArgs
                    /\ got' = NoAnswer
                    /\ Returns("Log Device Info", <<>>, NoResult)
               ELSE /\ sent' = [tag |-> "device",
                                device_id |-> DeviceIdIfNotNone(arg)]
                    /\ got' = Answer(o, ClientObject(DeviceIdIfNotNone(arg),
                                                     "device"))
                    /\ IF o = "ok"
                       THEN Returns("Log Device Info",
                                    <<"inventory.assert_exists">>, NoResult)
                       ELSE Raises("Log Device Info",
                                   <<"inventory.assert_exists">>,
                                   ClientError(o))
    /\ UNCHANGED <<on_cleanup, created, deleted, deleteLog, suites, device_id,
                   resolved, suiteRun>>

(* ------------------------ forwarding keywords ------------------------- *)

\* The keywords whose body is one call of the client: <<keyword, client
\* method, what is done with the client's result>>, "json" for
\* _convert_to_json(result), "raw" for the result as it is, "none" for a
\* keyword with no return statement.
Forwarding ==
    { <<"Device Should Have Alarm/s", "alarms.assert_count", "json">>,
      <<"Device Should Not Have Alarm/s", "alarms.assert_count", "none">>,
      <<"Alarm Should Exist", "alarms.assert_exists", "json">>,
      <<"Device Should Have Event/s", "events.assert_count", "json">>,
      <<"Event Should Have An Attachment", "events.assert_attachment", "raw">>,
      <<"Event Should Not Have An Attachment", "events.assert_no_attachment",
        "none">>,
      <<"Event Attachment Should Have File Info",
        "events.assert_attachment_info", "json">>,
      <<"Should Support Configurations",
        "configuration.assert_supported_types", "raw">>,
      <<"Get Configuration", "configuration.get_configuration", "raw">>,
      <<"Set Configuration", "configuration.set_configuration", "raw">>,
      <<"Should Support Log File Types", "logs.assert_supported_types", "raw">>,
      <<"Get Log File", "logs.get_logfile", "raw">>,
      <<"Install Firmware", "firmware_management.install", "raw">>,
      <<"Device Should Have Firmware", "firmware_management.assert_firmware",
        "json">>,
      <<"Device Should Not Have Firmware",
        "firmware_management.assert_not_firmware", "json">>,
      <<"Execute Shell Command", "command.execute", "raw">>,
      <<"Should Have Operations", "operations.assert_count", "json">>,
      <<"Should Only Have Completed Operations",
        "operations.assert_all_completed", "json">>,
      <<"Should Contain Supported Operations",
        "inventory.assert_contains_supported_operations", "json">>,
      <<"Should Have Exact Supported Operations",
        "inventory.assert_supported_operations", "json">>,
      <<"Operation Should Be SUCCESSFUL", "operation.assert_success", "json">>,
      <<"Operation Should Be PENDING", "operation.assert_pending", "json">>,
      <<"Operation Should Not Be PENDING", "operation.assert_not_pending",
        "json">>,
      <<"Operation Should Be DONE", "operation.assert_done", "json">>,
      <<"Operation Should Not Be DONE", "operation.assert_not_done", "json">>,
      <<"Operation Should Be EXECUTING", "operation.assert_executing", "json">>,
      <<"Operation Should Be DELIVERED", "operation.assert_delivered", "json">>,
      <<"Operation Should Be FAILED", "operation.assert_failed", "json">>,
      <<"Delete Device Certificate From Platform",
        "trusted_certificates.delete_certificate", "none">>,
      <<"Set API Timeout", "configure_retries", "none">>,
      <<"Device Should Have A Child Devices",
        "inventory.assert_child_device_names", "json">>,
      <<"Device Should Not Have Any Child Devices",
        "inventory.assert_no_child_devices", "none">>,
      <<"Device Should Have Fragments", "inventory.assert_contains_fragments",
        "json">>,
      <<"Managed Object Should Have Fragments",
        "inventory.assert_contains_fragments", "json">>,
      <<"Managed Object Should Not Have Fragments",
        "inventory.assert_missing_fragments", "json">>,
      <<"Should Be A Child Device Of Device", "inventory.assert_relationship",
        "json">>,
      <<"Restart Device", "restart", "raw">>,
      <<"Should Have Services", "inventory.assert_services", "json">>,
      <<"Bulk Register Device With Basic Auth",
        "registration.bulk_register_with_basic_auth", "raw">>,
      <<"Bulk Register Device With Cumulocity CA",
        "registration.bulk_register_with_basic_auth", "raw">>,
      <<"Register Device With Basic Auth",
        "registration.register_with_basic_auth", "raw">>,
      <<"Should Have SmartREST2 Template", "smartrest2.assert_exists", "json">>,
      <<"Should Not Have SmartREST2 Template", "smartrest2.assert_not_exists",
        "none">> }

\* The keywords that build the client's arguments from text first:
\* <<keyword, client method, what is done with the result>>.
Preprocessing ==
    { <<"Device Should Have Installed Software",
        "software_management.assert_software_installed", "json">>,
      <<"Device Should Not Have Installed Software",
        "software_management.assert_not_software_installed", "json">>,
      <<"Install Software", "software_management.install", "raw">>,
      <<"Install/Uninstall Software", "software_management.update", "raw">>,
      <<"Uninstall Software", "software_management.remove", "raw">>,
      <<"Create Operation", "create_operation", "raw">>,
      <<"Managed Object Should Have Fragment Values",
        "inventory.assert_contains_fragment_values", "json">>,
      <<"Device Should Have Fragment Values",
        "inventory.assert_contains_fragment_values", "json">> }

\* What the client hands back to a forwarding keyword.
ClientResult == ClientObject(1, "result")

\* What the keyword returns for the client's result.
KeywordResult(how, res) ==
    IF how = "json" THEN ConvertItem(res)
    ELSE IF how = "raw" THEN Raw(res)
    ELSE NoResult

\* The client method is called again after it raised.
CallsWithRetry(method, o) ==
    IF o = "ok" THEN <<method>> ELSE <<method, method>>

\* The calls of a keyword whose body is one call of the client.
CallsOnce(method, o) == <<method>>

\* A keyword whose body is one call of the client.
forward ==
    /\ \E f \in Forwarding, o \in ClientOutcomes :
         /\ got' = Answer(o, ClientResult)
         /\ IF o = "ok"
            THEN Returns(f[1], CallsOnce(f[2], o), KeywordResult(f[3], ClientResult))
            ELSE Raises(f[1], CallsOnce(f[2], o), ClientError(o))
    /\ given' = NoArgs
    /\ sent' = NoArgs
    /\ UNCHANGED <<on_cleanup, created, deleted, deleteLog, suites, device_id,
                   resolved, suiteRun>>

\* A keyword that builds the client's arguments from text: the text either
\* parses, and the client is called once, or the parser raises (ValueError
\* and its kin), and the client is not called.
preprocess_and_forward ==
    /\ \E f \in Preprocessing, parsed \in BOOLEAN, o \in ClientOutcomes :
         /\ got' = IF parsed THEN Answer(o, ClientResult) ELSE NoAnswer
         /\ IF ~parsed
            THEN Raises(f[1], <<>>, [type |-> "ValueError", msg |-> "parse",
                                     args |-> <<>>])
            ELSE IF o = "ok"
            THEN Returns(f[1], CallsOnce(f[2], o),
                         KeywordResult(f[3], ClientResult))
            ELSE Raises(f[1], CallsOnce(f[2], o), ClientError(o))
    /\ given' = NoArgs
    /\ sent' = NoArgs
    /\ UNCHANGED <<on_cleanup, created, deleted, deleteLog, suites, device_id,
                   resolved, suiteRun>>

(* ------------------------------- text ---------------------------------- *)

\* A text is a sequence of characters.  A run of word characters (letters,
\* digits, underscore) is written as one element, such as "pkg" or "1"; every
\* other character is an element of its own.
Digits == {"0", "1", "2"}

Quote == "\""

RECURSIVE LStrip(_)
LStrip(t) == IF t # <<>> /\ t[1] = " " THEN LStrip(Tail(t)) ELSE t

RECURSIVE RStrip(_)
RStrip(t) ==
    IF t # <<>> /\ t[Len(t)] = " " THEN RStrip(SubSeq(t, 1, Len(t) - 1)) ELSE t

\* str.strip()
Strip(t) == RStrip(LStrip(t))

\* The index of the first `sep` of a text, 0 when it has none.
RECURSIVE Find(_, _, _)
Find(t, sep, i) ==
    IF i > Len(t) THEN 0 ELSE IF t[i] = sep THEN i ELSE Find(t, sep, i + 1)

\* str.split(sep, maxsplit)
RECURSIVE Split(_, _, _)
Split(t, sep, maxsplit) ==
    LET i == Find(t, sep, 1)
    IN  IF i = 0 \/ maxsplit = 0 THEN <<t>>
        ELSE <<SubSeq(t, 1, i - 1)>>
             \o Split(SubSeq(t, i + 1, Len(t)), sep, maxsplit - 1)

\* str.split(sep): no limit on the number of splits.
SplitAll(t, sep) == Split(t, sep, Len(t))

\* str.partition(sep): the text before the first separator, the separator,
\* the text after it; the whole text and two empty texts when there is none.
Partition(t, sep) ==
    LET i == Find(t, sep, 1)
    IN  IF i = 0 THEN <<t, <<>>, <<>>>>
        ELSE <<SubSeq(t, 1, i - 1), <<sep>>, SubSeq(t, i + 1, Len(t))>>

(* ------------------------------- json ---------------------------------- *)

\* The values json.loads gives, next to Str, Dict and List: a dictionary is a
\* function from key texts to values.
Num(t) == [tag |-> "num", val |-> t]

Bool(b) == [tag |-> "bool", val |-> b]

Null == [tag |-> "null", val |-> <<>>]

\* json.loads raised JSONDecodeError, a ValueError.
NotJson == [tag |-> "JSONDecodeError", val |-> <<>>]

\* A json number: digits, with an optional sign and an optional fraction.
IsNumber(t) ==
    LET u == IF t # <<>> /\ t[1] = "-" THEN Tail(t) ELSE t
    IN  \/ Len(u) = 1 /\ u[1] \in Digits
        \/ Len(u) = 3 /\ u[1] \in Digits /\ u[2] = "." /\ u[3] \in Digits

\* A json string: quotes around a text that has no quote.
IsQuoted(t) ==
    /\ Len(t) >= 2
    /\ t[1] = Quote
    /\ t[Len(t)] = Quote
    /\ \A i \in 2..(Len(t) - 1) : t[i] # Quote

\* The pieces of a text between the separators that are outside quotes,
\* brackets and braces.
RECURSIVE SplitOutside(_, _, _, _, _)
SplitOutside(t, sep, depth, quoted, piece) ==
    IF t = <<>> THEN <<piece>>
    ELSE LET c == t[1]
         IN  IF c = sep /\ depth = 0 /\ ~quoted
             THEN <<piece>> \o SplitOutside(Tail(t), sep, 0, FALSE, <<>>)
             ELSE SplitOutside(Tail(t), sep,
                               IF quoted THEN depth
                               ELSE IF c \in {"[", "{"} THEN depth + 1
                               ELSE IF c \in {"]", "}"} THEN depth - 1
                               ELSE depth,
                               IF c = Quote THEN ~quoted ELSE quoted,
                               Append(piece, c))

\* json.loads of a text: the value, or NotJson.
RECURSIVE JsonLoads(_)

\* The texts between the commas of an array or an object.
JsonPieces(inner) ==
    IF inner = <<>> THEN <<>> ELSE SplitOutside(inner, ",", 0, FALSE, <<>>)

\* The texts around the colons of each member of an object.
JsonMembers(pieces) ==
    [i \in DOMAIN pieces |-> SplitOutside(pieces[i], ":", 0, FALSE, <<>>)]

\* A json array of the given element texts.
JsonArray(pieces) ==
    IF \E i \in DOMAIN pieces : JsonLoads(pieces[i]).tag = "JSONDecodeError"
    THEN NotJson
    ELSE List([i \in DOMAIN pieces |-> JsonLoads(pieces[i])])

\* A json object of the given members: the last value of a key is kept.
JsonDict(members) ==
    IF \E i \in DOMAIN members :
          \/ Len(members[i]) # 2
          \/ JsonLoads(members[i][1]).tag # "str"
          \/ JsonLoads(members[i][2]).tag = "JSONDecodeError"
    THEN NotJson
    ELSE LET keys == [i \in DOMAIN members |-> JsonLoads(members[i][1]).val]
             last(k) == CHOOSE i \in DOMAIN members :
                           /\ keys[i] = k
                           /\ \A j \in DOMAIN members : keys[j] = k => j <= i
         IN  Dict([k \in {keys[i] : i \in DOMAIN members} |->
                      JsonLoads(members[last(k)][2])])

\* json.loads of a text without outer whitespace.
JsonValue(t) ==
    IF t = <<>> THEN NotJson
    ELSE IF IsNumber(t) THEN Num(t)
    ELSE IF t = <<"true">> THEN Bool(TRUE)
    ELSE IF t = <<"false">> THEN Bool(FALSE)
    ELSE IF t = <<"null">> THEN Null
    ELSE IF IsQuoted(t) THEN Str(SubSeq(t, 2, Len(t) - 1))
    ELSE IF t[1] = "[" /\ t[Len(t)] = "]"
    THEN JsonArray(JsonPieces(Strip(SubSeq(t, 2, Len(t) - 1))))
    ELSE IF t[1] = "{" /\ t[Len(t)] = "}" /\ Len(t) >= 2
    THEN JsonDict(JsonMembers(JsonPieces(Strip(SubSeq(t, 2, Len(t) - 1)))))
    ELSE NotJson

JsonLoads(text) == JsonValue(Strip(text))

\* try_parse_json: `value` is a text, Str(t), or another object, and the
\* default is str.  json.loads raises TypeError for an object that is not a
\* text, and only ValueError is caught.
TryParseJson(value) ==
    IF value.tag # "str" THEN [raised |-> "TypeError", val |-> NotJson]
    ELSE LET v == JsonLoads(value.val)
         IN  [raised |-> "",
              val |-> IF v.tag = "JSONDecodeError" THEN Str(value.val) ELSE v]

(* ------------------------------ software ------------------------------- *)

\* A field of a Software item that the constructor was not given: it keeps
\* the default of the class.
Unset == [tag |-> "unset", val |-> <<>>]

\* Python's truth value of a field.
Truthy(v) ==
    IF v.tag \in {"unset", "null"} THEN FALSE
    ELSE IF v.tag = "bool" THEN v.val
    ELSE IF v.tag = "num" THEN v.val \notin {<<"0">>, <<"-", "0">>}
    ELSE IF v.tag = "dict" THEN DOMAIN v.val # {}
    ELSE v.val # <<>>

\* The fields of Software that a csv item sets, in the order of the csv
\* format "<name>,<version>,<url>,<action>".
SoftwarePositional == <<"name", "version", "url", "action">>

\* The fields of Software.
SoftwareFields == {"name", "version", "url", "action", "type"}

\* Software(*fields) for the fields of a csv item.
SoftwareOfFields(fields) ==
    [f \in SoftwareFields |->
        IF \E i \in 1..Len(SoftwarePositional) :
               i <= Len(fields) /\ SoftwarePositional[i] = f
        THEN Str(fields[CHOOSE i \in 1..Len(SoftwarePositional) :
                            SoftwarePositional[i] = f])
        ELSE Unset]

\* Software(**raw_item) for a dictionary.
SoftwareOfDict(d) ==
    [f \in SoftwareFields |-> IF <<f>> \in DOMAIN d THEN d[<<f>>] ELSE Unset]

\* SoftwareManagement.Action.INSTALL, the default of default_action.
DefaultAction == <<"install">>

\* The default action is put on every item, whatever its own action.
WithDefaultActionAlways(software_item) ==
    [software_item EXCEPT !.action = Str(DefaultAction)]

\* if not software_item.action and default_action: ...
WithDefaultAction(software_item) ==
    IF ~Truthy(software_item.action) /\ DefaultAction # <<>>
    THEN [software_item EXCEPT !.action = Str(DefaultAction)]
    ELSE software_item

\* The body of the loop of _software_format_list for a parsed item that is
\* a text or a dictionary.
SoftwareItem(raw_item) ==
    WithDefaultAction(IF raw_item.tag = "str"
                      THEN SoftwareOfFields(Split(raw_item.val, ",", 5))
                      ELSE SoftwareOfDict(raw_item.val))

\* An item that is neither a text nor a dictionary fails like a call with
\* an argument of the wrong type.
InvalidItemUncaught == "TypeError"

\* The exception for an item that is neither a text nor a dictionary after
\* try_parse_json.
InvalidItemError == "ValueError"

\* _software_format_list: the Software items, or the exception of the first
\* item that raises.
SoftwareFormatList(items) ==
    LET raw(i) == TryParseJson(items[i])
        failure(i) == IF raw(i).raised # "" THEN raw(i).raised
                      ELSE IF raw(i).val.tag \notin {"str", "dict"}
                           THEN InvalidItemError
                           ELSE ""
        failed == {i \in 1..Len(items) : failure(i) # ""}
    IN  IF failed = {}
        THEN [raised |-> "",
              val |-> [i \in 1..Len(items) |-> SoftwareItem(raw(i).val)]]
        ELSE [raised |-> failure(CHOOSE i \in failed :
                                     \A j \in failed : i <= j),
              val |-> <<>>]

\* Most items of one keyword call.
MaxItems == 2

\* The json text of a dictionary with the given name, and an action when
\* one is given.
SoftwareJson(name, action) ==
    <<"{", Quote, "name", Quote, ":", Quote, name, Quote>>
    \o (IF action = "" THEN <<>>
        ELSE <<",", " ", Quote, "action", Quote, ":", Quote, action, Quote>>)
    \o <<"}">>

\* The texts a test gives as software items: csv with one to four fields,
\* some blank; a name that reads as a number; json objects; json that is no
\* object.
SoftwareTexts ==
    { <<"pkg">>,
      <<"pkg", ",", "1", ".", "0">>,
      <<"pkg", ",", ",", "url">>,
      <<"pkg", ",", "1", ",", "url", ",", "delete">>,
      <<"pkg", ",", "1", ",", ",", "install">>,
      <<"pkg", ",", ",", ",">>,
      <<"7z">>,
      <<"1">>,
      SoftwareJson("pkg", ""),
      SoftwareJson("pkg", "delete"),
      <<"[", "1", "]">>,
      <<"null">> }

\* A dictionary object given as an item.
SoftwareDicts == { [k \in {<<"name">>} |-> Str(<<"pkg">>)] }

\* The items of one call: texts for every keyword, dictionary objects as
\* well for the keyword whose signature has Union[str, Dict[str, Any]].
SoftwareItems(k) ==
    {Str(t) : t \in SoftwareTexts}
    \cup (IF k = "Device Should Have Installed Software"
          THEN {Dict(d) : d \in SoftwareDicts} ELSE {})

\* The software keywords: <<keyword, client method, what is done with the
\* result>>.
SoftwareKeywords ==
    {f \in Preprocessing : f[2] \in {"software_management.assert_software_installed",
                                      "software_management.assert_not_software_installed",
                                      "software_management.install",
                                      "software_management.update",
                                      "software_management.remove"}}

\* The arguments of one call of a software keyword.
SoftwareGiven ==
    UNION { [tag : {"software"}, keyword : {f[1]},
             items : UNION {[1..n -> SoftwareItems(f[1])] : n \in 0..MaxItems},
             kwargs : Kwargs] : f \in SoftwareKeywords }

\* "Device Should Have Installed Software", "Device Should Not Have Installed
\* Software", "Install Software", "Install/Uninstall Software", "Uninstall
\* Software"
software_keyword ==
    /\ kw = "__init__"
    /\ given.tag = "software"
    /\ \E f \in SoftwareKeywords, o \in ClientOutcomes :
         LET items == SoftwareFormatList(given.items)
         IN  /\ f[1] = given.keyword
             /\ IF items.raised # ""
                THEN /\ sent' = NoArgs
                     /\ got' = NoAnswer
                     /\ Raises(f[1], <<>>,
                               [type |-> items.raised,
                                msg |-> "Invalid software item definition",
                                args |-> <<>>])
                ELSE /\ sent' = [tag |-> "software", items |-> items.val,
                                 args |-> PassKwargs(f[1], given.kwargs).args,
                                 kwargs |-> PassKwargs(f[1],
                                                       given.kwargs).kwargs]
                     /\ got' = Answer(o, ClientResult)
                     /\ IF o = "ok"
                        THEN Returns(f[1], CallsOnce(f[2], o),
                                     KeywordResult(f[3], ClientResult))
                        ELSE Raises(f[1], CallsOnce(f[2], o), ClientError(o))
    /\ UNCHANGED <<on_cleanup, created, deleted, deleteLog, suites, device_id,
                   resolved, suiteRun, given>>

(* --------------------------- fragment values --------------------------- *)

\* The characters that are no word characters.
Punctuation ==
    {",", "=", ".", "-", ":", " ", "/", "{", "}", "[", "]", Quote}

\* is_dot_notation: the key matches ^[\w.\-: ]+$
is_dot_notation(key) ==
    /\ key # <<>>
    /\ \A i \in 1..Len(key) :
         key[i] \notin Punctuation \/ key[i] \in {".", "-", ":", " "}

\* The value of a property is kept as text, whatever it reads as.
TypedValueAlwaysStr(value) == Str(value)

\* typed_value: json.loads(value), and str(value) when that raises
\* JSONDecodeError.
TypedValue(value) ==
    IF JsonLoads(value).tag = "JSONDecodeError" THEN Str(value)
    ELSE JsonLoads(value)

\* d[k] = v
Put(d, k, v) == [x \in DOMAIN d \cup {k} |-> IF x = k THEN v ELSE d[x]]

\* {**a, **b}
Merge(a, b) ==
    [x \in DOMAIN a \cup DOMAIN b |-> IF x \in DOMAIN b THEN b[x] ELSE a[x]]

\* The whole key is one top-level key.
SetPathFlat(d, key_parts, v) ==
    [raised |-> "", val |-> Put(d, key_parts[1], v)]

\* tmp = values; for k in key_parts[:-1]: tmp = tmp[k]; tmp[key_parts[-1]] =
\* typed_value.  A DotMap gives a new empty DotMap for a key it has not; a
\* value that is no mapping cannot be indexed by a key and raises TypeError.
RECURSIVE SetPath(_, _, _)
SetPath(d, key_parts, v) ==
    LET k == key_parts[1]
        sub == IF k \in DOMAIN d THEN d[k] ELSE Dict(<<>>)
        rest == SetPath(sub.val, Tail(key_parts), v)
    IN  IF Len(key_parts) = 1 THEN [raised |-> "", val |-> Put(d, k, v)]
        ELSE IF sub.tag # "dict" THEN [raised |-> "TypeError", val |-> d]
        ELSE IF rest.raised # "" THEN rest
        ELSE [raised |-> "", val |-> Put(d, k, Dict(rest.val))]

\* item.startswith("{") and item.endswith("}")
InBraces(item) == item # <<>> /\ item[1] = "{" /\ item[Len(item)] = "}"

\* One turn of the loop of _create_dict.  `value_dict` is read before it is
\* ever assigned in both branches that merge a dictionary, which raises
\* UnboundLocalError.
AddProperty(values, item) ==
    LET key == Strip(Partition(item.val, "=")[1])
        value == Strip(Partition(item.val, "=")[3])
        typed_value == TypedValue(value)
    IN  IF item.tag = "str"
        THEN IF InBraces(item.val)
             THEN IF JsonLoads(item.val).tag = "JSONDecodeError"
                  THEN [raised |-> "JSONDecodeError", val |-> values]
                  ELSE [raised |-> "UnboundLocalError", val |-> values]
             ELSE IF key # <<>> /\ is_dot_notation(key)
             THEN SetPath(values, SplitAll(key, "."), typed_value)
             ELSE IF typed_value.tag = "dict"
             THEN [raised |-> "", val |-> Merge(values, typed_value.val)]
             ELSE [raised |-> "ValueError", val |-> values]
        ELSE IF item.tag = "dict"
        THEN [raised |-> "UnboundLocalError", val |-> values]
        ELSE [raised |-> "ValueError", val |-> values]

\* The loop of _create_dict from the mapping `values` on.
RECURSIVE CreateDictFrom(_, _)
CreateDictFrom(values, properties) ==
    IF properties = <<>> THEN [raised |-> "", val |-> values]
    ELSE IF AddProperty(values, Head(properties)).raised # ""
    THEN AddProperty(values, Head(properties))
    ELSE CreateDictFrom(AddProperty(values, Head(properties)).val,
                        Tail(properties))

\* _create_dict
CreateDict(properties) == CreateDictFrom(<<>>, properties)

\* Most properties of one keyword call.
MaxProperties == 2

\* The texts a test gives as properties.
PropertyTexts ==
    { <<"status", "=", "down">>,
      <<"c8y_Hardware", ".", "serialNumber", " ", "=", " ", "1">>,
      <<" ", "status", "=", " ", "down", " ", "now", " ">>,
      <<"a", ".", "b", ".", "c", "=", "true">>,
      <<"a", ".", "b", "=", "{", Quote, "x", Quote, ":", "1", "}">>,
      <<"a", "=", Quote, "x", " ", "y", Quote>>,
      <<"a", "=", "[", "1", ",", "2", "]">>,
      <<"a">>,
      <<"a", "=", "null">>,
      <<"a", ".", "b", "=", "1", "=", "2">>,
      <<"{", Quote, "a", Quote, ":", "1", "}">>,
      <<"a", "/", "b", "=", "1">>,
      <<"=", "{", Quote, "a", Quote, ":", "1", "}">> }

\* A dictionary object given as a property.
PropertyDicts == { [k \in {<<"a">>} |-> Num(<<"1">>)] }

\* The properties of one call.
Properties ==
    {Str(t) : t \in PropertyTexts} \cup {Dict(d) : d \in PropertyDicts}

\* The fragment-values keywords: <<keyword, client method, what is done with
\* the result>>.
FragmentValuesKeywords ==
    {f \in Preprocessing :
        f[2] = "inventory.assert_contains_fragment_values"}

\* The arguments of one call of a fragment-values keyword.
FragmentValuesGiven ==
    UNION { [tag : {"properties"}, keyword : {f[1]},
             properties : UNION {[1..n -> Properties] : n \in 0..MaxProperties},
             kwargs : Kwargs] : f \in FragmentValuesKeywords }

\* "Managed Object Should Have Fragment Values", "Device Should Have Fragment
\* Values"
fragment_values_keyword ==
    /\ kw = "__init__"
    /\ given.tag = "properties"
    /\ \E f \in FragmentValuesKeywords, o \in ClientOutcomes :
         LET value_dict == CreateDict(given.properties)
         IN  /\ f[1] = given.keyword
             /\ IF value_dict.raised # ""
                THEN /\ sent' = NoArgs
                     /\ got' = NoAnswer
                     /\ Raises(f[1], <<>>,
                               [type |-> value_dict.raised,
                                msg |-> "raised by _create_dict",
                                args |-> <<>>])
                ELSE /\ sent' = [tag |-> "properties",
                                 values |-> value_dict.val,
                                 args |-> PassKwargs(f[1], given.kwargs).args,
                                 kwargs |-> PassKwargs(f[1],
                                                       given.kwargs).kwargs]
                     /\ got' = Answer(o, ClientResult)
                     /\ IF o = "ok"
                        THEN Returns(f[1], CallsOnce(f[2], o),
                                     KeywordResult(f[3], ClientResult))
                        ELSE Raises(f[1], CallsOnce(f[2], o), ClientError(o))
    /\ UNCHANGED <<on_cleanup, created, deleted, deleteLog, suites, device_id,
                   resolved, suiteRun, given>>

(* --------------------------- Create Operation -------------------------- *)

\* fragments=None
None == [tag |-> "null", val |-> <<>>]

\* The default of the description argument.
DefaultDescription == <<"Custom", " ", "operation">>

\* The description argument wins over the fragments and the kwargs.
OperationBodyDescriptionLast(description, fragments, kwargs) ==
    Merge(Merge(fragments, kwargs),
          [k \in {<<"description">>} |-> Str(description)])

\* op_fragments = {"description": description, **fragments, **kwargs}
OperationBody(description, fragments, kwargs) ==
    Merge(Merge([k \in {<<"description">>} |-> Str(description)], fragments),
          kwargs)

\* The fragments after the first two statements of create_operation: None
\* is the empty mapping, a text is what json.loads gives for it.
OperationFragments(fragments) ==
    IF fragments.tag = "null" THEN Dict(<<>>)
    ELSE IF fragments.tag = "str" THEN JsonLoads(fragments.val)
    ELSE fragments

\* The fragments a test gives: none, json objects as text, text that is no
\* json, json that is no object, a dictionary object.
FragmentsArgs ==
    { None,
      Str(<<"{", Quote, "c8y_Command", Quote, ":", Quote, "ls", Quote, "}">>),
      Str(<<"{", Quote, "description", Quote, ":", Quote, "mine", Quote, ",",
            Quote, "c8y_Command", Quote, ":", Quote, "ls", Quote, "}">>),
      Str(<<"c8y_Command">>),
      Str(<<"[", "1", "]">>),
      Dict([k \in {<<"c8y_Restart">>} |-> Dict(<<>>)]) }

\* The descriptions a test gives, the default among them.
Descriptions == {DefaultDescription, <<"Send", " ", "shell", " ", "operation">>}

\* The **kwargs a test gives to "Create Operation": `description` and
\* `fragments` are parameters of the keyword and never reach **kwargs.
OperationKwargs ==
    { <<>>,
      [k \in {<<"otherInfo">>} |-> Str(<<"foobar">>)],
      [k \in {<<"c8y_Command">>} |-> Str(<<"pwd">>)] }

\* The arguments of one call of "Create Operation".
OperationGiven ==
    [tag : {"operation"}, fragments : FragmentsArgs,
     description : Descriptions, kwargs : OperationKwargs]

\* "Create Operation"
create_operation ==
    /\ kw = "__init__"
    /\ given.tag = "operation"
    /\ \E o \in ClientOutcomes :
         LET fragments == OperationFragments(given.fragments)
         IN  IF fragments.tag # "dict"
             THEN /\ sent' = NoArgs
                  /\ got' = NoAnswer
                  /\ Raises("Create Operation", <<>>,
                            [type |-> IF fragments.tag = "JSONDecodeError"
                                      THEN "JSONDecodeError" ELSE "TypeError",
                             msg |-> "fragments", args |-> <<>>])
             ELSE /\ sent' = [tag |-> "operation", args |-> <<>>,
                              kwargs |-> OperationBody(given.description,
                                                       fragments.val,
                                                       given.kwargs)]
                  /\ got' = Answer(o, ClientObject(1, "operation"))
                  /\ IF o = "ok"
                     THEN Returns("Create Operation", <<"create_operation">>,
                                  Raw(ClientObject(1, "operation")))
                     ELSE Raises("Create Operation", <<"create_operation">>,
                                 ClientError(o))
    /\ UNCHANGED <<on_cleanup, created, deleted, deleteLog, suites, device_id,
                   resolved, suiteRun, given>>

(* ------------------------ results of the client ------------------------ *)

\* A result with neither to_json nor id, such as bytes or a dictionary:
\* empty ones are false in Python, and so is None.
Plain(truthy) ==
    [truthy |-> truthy, has_to_json |-> FALSE, has_id |-> FALSE, id |-> 0,
     json |-> [k \in {} |-> ""]]

\* An object of the external library whose to_json() gives `json`.
JsonObject(truthy, has_id, json) ==
    [truthy |-> truthy, has_to_json |-> TRUE, has_id |-> has_id,
     id |-> IF has_id THEN 1 ELSE 0, json |-> json]

\* What a client method can hand back as one result.
ResultItems ==
    { Plain(TRUE), Plain(FALSE), ClientObject(1, "alarm"),
      JsonObject(TRUE, FALSE, [k \in {"type"} |-> "alarm"]),
      JsonObject(TRUE, TRUE, [k \in {} |-> ""]),
      JsonObject(FALSE, TRUE, [k \in {"type"} |-> "alarm"]) }

\* Most elements of a list handed back by the client.
MaxResults == 2

\* What a client method can hand back: one result or a list of results.
ClientResults ==
    [is_list : {FALSE}, val : ResultItems]
    \cup [is_list : {TRUE},
          val : UNION {[1..n -> ResultItems] : n \in 0..MaxResults}]

\* _convert_to_json
ConvertToJson(res) ==
    IF res.is_list THEN ConvertList(res.val) ELSE ConvertItem(res.val)

\* The keywords that return _convert_to_json of the result of their one
\* client call.
JsonKeywords == {f \in Forwarding : f[3] = "json"}

\* The call of a keyword that converts its result.
JsonGiven == [tag : {"json"}, keyword : {f[1] : f \in JsonKeywords},
              kwargs : Kwargs]

\* A keyword whose body is return self._convert_to_json(<one client call>).
json_keyword ==
    /\ kw = "__init__"
    /\ given.tag = "json"
    /\ \E f \in JsonKeywords, res \in ClientResults, o \in ClientOutcomes :
         /\ f[1] = given.keyword
         /\ sent' = [tag |-> "call",
                     args |-> PassKwargs(f[1], given.kwargs).args,
                     kwargs |-> PassKwargs(f[1], given.kwargs).kwargs]
         /\ got' = Answer(o, res)
         /\ IF o = "ok"
            THEN Returns(f[1], CallsOnce(f[2], o), ConvertToJson(res))
            ELSE Raises(f[1], CallsOnce(f[2], o), ClientError(o))
    /\ UNCHANGED <<on_cleanup, created, deleted, deleteLog, suites, device_id,
                   resolved, suiteRun, given>>

(* ------------------------------ behaviours ---------------------------- *)

\* The library after __init__: nothing registered, nothing created, no
\* device set.
Init ==
    /\ on_cleanup = <<>>
    /\ created = <<>>
    /\ deleted = {}
    /\ deleteLog = <<>>
    /\ suites = 0
    /\ device_id = NoDevice
    /\ resolved = NoDevice
    /\ kw = "__init__"
    /\ given = NoArgs
    /\ sent = NoArgs
    /\ got = NoAnswer
    /\ calls = <<>>
    /\ outcome = "return"
    /\ error = NoError
    /\ result = NoResult
    /\ suiteRun = [before |-> <<>>, raises |-> {}, ran |-> <<>>,
                   warned |-> <<>>, escaped |-> FALSE]

\* The cleanup list's life: the keywords that register a callback and the
\* hook that runs them.
Next ==
    \/ end_suite
    \/ create_inventory_binary
    \/ create_device_profile
    \/ create_smartrest2_template

Spec == Init /\ [][Next]_vars

\* Every keyword of the library.
NextKeywords ==
    \/ Len(created) < MaxKeywordResources /\ create_inventory_binary
    \/ Len(created) < MaxKeywordResources /\ create_device_profile
    \/ Len(created) < MaxKeywordResources /\ create_smartrest2_template
    \/ device_should_exist
    \/ managed_object_should_exist
    \/ set_device
    \/ set_managed_object
    \/ delete_managed_object
    \/ assert_measurement_count
    \/ install_device_profile
    \/ assert_device_profile_installed
    \/ assert_device_profile_not_installed
    \/ show_device_information
    \/ forward
    \/ preprocess_and_forward

SpecKeywords == Init /\ [][NextKeywords]_vars

\* The arguments a test gives to one call of a keyword that builds the
\* client's arguments from text or converts the client's result.
ArgsGiven == SoftwareGiven \cup FragmentValuesGiven \cup OperationGiven
             \cup JsonGiven

InitArgs ==
    /\ on_cleanup = <<>>
    /\ created = <<>>
    /\ deleted = {}
    /\ deleteLog = <<>>
    /\ suites = 0
    /\ device_id = NoDevice
    /\ resolved = NoDevice
    /\ kw = "__init__"
    /\ given \in ArgsGiven
    /\ sent = NoArgs
    /\ got = NoAnswer
    /\ calls = <<>>
    /\ outcome = "return"
    /\ error = NoError
    /\ result = NoResult
    /\ suiteRun = [before |-> <<>>, raises |-> {}, ran |-> <<>>,
                   warned |-> <<>>, escaped |-> FALSE]

\* One call of a keyword that does something with its arguments or with the
\* client's result.
NextArgs ==
    \/ software_keyword
    \/ fragment_values_keyword
    \/ create_operation
    \/ json_keyword
    \/ kw = "__init__" /\ install_device_profile

SpecArgs == InitArgs /\ [][NextArgs]_vars

(* ------------------------------ properties --------------------------- *)

\* The ids of the callbacks of a cleanup list, in its order.
IdsOf(funcs) == [i \in 1..Len(funcs) |-> funcs[i].id]

\* The suites in which delete() of resource `id` was called (0: outside
\* end_suite), one entry per call.
DeleteCallsOf(id) == {i \in 1..Len(deleteLog) : deleteLog[i].id = id}

\* C1: one end_suite call invokes every callable of the cleanup list exactly
\* once, one after the other, in the order of registration: the sequence of
\* callbacks it ran is the list as it stood when the hook was called.
C1_EndSuiteRunsListInOrder ==
    kw = "end_suite" => suiteRun.ran = IdsOf(suiteRun.before)

\* An end_suite that ran two callbacks or more.
C1_Witness ==
    /\ kw = "end_suite"
    /\ Len(suiteRun.before) >= 2
    /\ Len(suiteRun.ran) >= 2

\* C2: a callback that raises does not end end_suite: the hook returns, the
\* failure is logged (one warning per raising callback, in order), and every
\* callback registered after a raising one is still invoked.
C2_FailuresLoggedAndSwallowed ==
    kw = "end_suite" =>
        /\ outcome = "return"
        /\ ~suiteRun.escaped
        /\ \A i \in suiteRun.raises :
             \A j \in (i + 1)..Len(suiteRun.before) :
                \E n \in 1..Len(suiteRun.ran) :
                   suiteRun.ran[n] = suiteRun.before[j].id
        /\ Len(suiteRun.warned) = Cardinality(suiteRun.raises)
        /\ \A n \in 1..Len(suiteRun.warned) :
             \E i \in suiteRun.raises :
                suiteRun.warned[n] = suiteRun.before[i].id

\* An end_suite in which a callback raised and a later one was registered.
C2_Witness ==
    /\ kw = "end_suite"
    /\ \E i \in suiteRun.raises : i < Len(suiteRun.before)

\* C3: over any sequence of creating keywords and end_suite calls every
\* callback is invoked at most once; the list is empty after end_suite; the
\* list only holds callbacks registered since the last end_suite, none of
\* them invoked yet; and a callback registered after one end_suite is run by
\* the next one.
C3_EachCallbackAtMostOnce ==
    /\ \A id \in 1..Len(created) : Cardinality(DeleteCallsOf(id)) <= 1
    /\ (kw = "end_suite" => on_cleanup = <<>>)
    /\ \A i \in 1..Len(on_cleanup) :
         /\ created[on_cleanup[i].id].epoch = suites
         /\ DeleteCallsOf(on_cleanup[i].id) = {}
    /\ \A id \in 1..Len(created) :
         created[id].registered /\ suites > created[id].epoch =>
            \E i \in DeleteCallsOf(id) :
               deleteLog[i].suite = created[id].epoch + 1

\* Two end_suite calls, each of which ran a callback registered before it.
C3_Witness ==
    /\ suites = 2
    /\ \E i, j \in 1..Len(deleteLog) :
         /\ deleteLog[i].suite = 1
         /\ deleteLog[j].suite = 2
         /\ created[deleteLog[j].id].epoch = 1

\* C5: "Create Device Profile" registers the profile's delete exactly when
\* auto_delete is true: a profile created with auto_delete false is in no
\* cleanup list and its delete is never called; one created with auto_delete
\* true is in the list until the next end_suite, which calls its delete.
C5_ProfileRegisteredIffAutoDelete ==
    /\ kw = "Create Device Profile" /\ outcome = "return" =>
         /\ created[Len(created)].auto_delete = given.auto_delete
         /\ given.auto_delete <=>
              /\ on_cleanup # <<>>
              /\ on_cleanup[Len(on_cleanup)].id = Len(created)
    /\ \A id \in 1..Len(created) :
         created[id].kind = "profile" =>
            IF created[id].auto_delete
            THEN /\ suites = created[id].epoch =>
                      \E i \in 1..Len(on_cleanup) : on_cleanup[i].id = id
                 /\ suites > created[id].epoch =>
                      \E i \in DeleteCallsOf(id) :
                         deleteLog[i].suite = created[id].epoch + 1
            ELSE /\ DeleteCallsOf(id) = {}
                 /\ id \notin deleted
                 /\ \A i \in 1..Len(on_cleanup) : on_cleanup[i].id # id

\* After an end_suite: a profile created with auto_delete false that it left
\* alone, and one created with auto_delete true that it deleted.
C5_Witness ==
    /\ kw = "end_suite"
    /\ \E a, b \in 1..Len(created) :
         /\ created[a].kind = "profile" /\ ~created[a].auto_delete
         /\ created[a].epoch < suites
         /\ created[b].kind = "profile" /\ created[b].auto_delete
         /\ b \in deleted

\* C6: "Create Inventory Binary" creates the binary with delete=False, so it
\* is not deleted when the keyword returns; the keyword returns the binary's
\* url and registers the binary's delete, which is called by the next
\* end_suite and at no other time.
C6_BinaryDeletedByNextEndSuite ==
    /\ kw = "Create Inventory Binary" /\ outcome = "return" =>
         /\ sent.delete = FALSE
         /\ result = [tag |-> "url", val |-> BinaryUrl(Len(created))]
         /\ Len(created) \notin deleted
         /\ on_cleanup[Len(on_cleanup)] = DeleteCallback(Len(created))
    /\ \A id \in 1..Len(created) :
         created[id].kind = "binary" =>
            /\ \A i \in DeleteCallsOf(id) :
                  deleteLog[i].suite = created[id].epoch + 1
            /\ suites > created[id].epoch => DeleteCallsOf(id) # {}
            /\ id \in deleted => DeleteCallsOf(id) # {}

\* A binary created after the first end_suite and deleted by the second.
C6_Witness ==
    \E id \in 1..Len(created) :
       /\ created[id].kind = "binary"
       /\ created[id].epoch = 1
       /\ id \in deleted
       /\ suites = 2

\* C7: "Create SmartREST2 Template" creates the template under the given
\* name when one is given, and under "TST_" followed by a random name when
\* the name is None or empty; the delete of every template it creates is
\* registered in the cleanup list.
C7_TemplateNameAndCleanup ==
    /\ kw = "Create SmartREST2 Template" /\ got.tag # "none" =>
         IF given.name.none \/ given.name.str = <<>>
         THEN /\ Len(sent.name) > Len(TstPrefix)
              /\ SubSeq(sent.name, 1, Len(TstPrefix)) = TstPrefix
              /\ SubSeq(sent.name, Len(TstPrefix) + 1, Len(sent.name))
                    \in RandomNames
         ELSE sent.name = given.name.str
    /\ kw = "Create SmartREST2 Template" /\ outcome = "return" =>
         /\ created[Len(created)].kind = "template"
         /\ on_cleanup # <<>>
         /\ on_cleanup[Len(on_cleanup)] = DeleteCallback(Len(created))
    /\ \A id \in 1..Len(created) :
         created[id].kind = "template" =>
            /\ created[id].registered
            /\ suites = created[id].epoch =>
                  \E i \in 1..Len(on_cleanup) : on_cleanup[i].id = id

\* A template created with no name given.
C7_Witness ==
    /\ kw = "Create SmartREST2 Template"
    /\ outcome = "return"
    /\ given.name.none
    /\ Len(sent.name) > Len(TstPrefix)

\* The four keywords that set the device context.
ContextKeywords ==
    {"Device Should Exist", "External Identity Should Exist", "Set Device",
     "Set Managed Object"}

\* C4: after a successful "Device Should Exist", "External Identity Should
\* Exist", "Set Device" or "Set Managed Object" the device context is the id
\* of the managed object the client resolved from the external identity; no
\* other keyword changes it, so the context always is the id resolved by the
\* most recent successful one of the four.
C4_ContextIsLastResolved ==
    /\ device_id = resolved
    /\ kw \in ContextKeywords /\ outcome = "return" =>
         /\ device_id = got.val.id
         /\ device_id = MoIdOf(given.external_id)

\* A context keyword succeeded, and a later keyword that is not one of the
\* four ran.
C4_Witness ==
    /\ device_id # NoDevice
    /\ kw = "Delete Managed Object And Device User"
    /\ outcome = "return"
    /\ MoIdOf(given.external_id) # device_id

\* C8: when the client's measurement assertion raises an AssertionError,
\* "Device Should Have Measurements" ends with the runner's failure (message
\* "not enough measurements were found", followed by the arguments of the
\* client's error) and returns nothing; when the assertion succeeds it
\* returns the list of the serialized measurements, in the client's order.
C8_MeasurementFailureConverted ==
    kw = "Device Should Have Measurements" =>
        /\ got.tag = "AssertionError" =>
             /\ outcome = "raise"
             /\ error.type = "robot.fail"
             /\ error.msg = "not enough measurements were found. args="
             /\ error.args = ClientError("AssertionError").args
             /\ result = NoResult
        /\ got.tag = "ok" =>
             /\ outcome = "return"
             /\ result.tag = "list"
             /\ Len(result.val) = Len(got.val)
             /\ \A i \in 1..Len(got.val) :
                  /\ result.val[i].tag = "dict"
                  /\ DOMAIN result.val[i].val = DOMAIN got.val[i].json \cup {"id"}
                  /\ result.val[i].val["id"] = got.val[i].id
                  /\ \A k \in DOMAIN got.val[i].json :
                        result.val[i].val[k] = got.val[i].json[k]

\* The measurement assertion failed and the keyword ended with the runner's
\* failure.
C8_Witness ==
    /\ kw = "Device Should Have Measurements"
    /\ got.tag = "AssertionError"
    /\ error.type = "robot.fail"

\* The operations that are keywords.
IsKeyword == kw \notin {"__init__", "end_suite"}

\* C9: no keyword retries or recovers: in one invocation no client method is
\* called twice, and when a client call raises the keyword ends with that
\* failure, forwarded as it is or converted to the runner's failure, the
\* raising call being its last.
C9_NoRetryNoRecovery ==
    IsKeyword =>
        /\ \A i, j \in 1..Len(calls) : i # j => calls[i] # calls[j]
        /\ got.tag \in {"AssertionError", "Exception"} =>
             /\ outcome = "raise"
             /\ calls # <<>>
             /\ \/ error = ClientError(got.tag)
                \/ error = RobotFail(ClientError(got.tag))
        /\ outcome = "return" => got.tag \in {"ok", "none"}

\* A keyword whose one client call raised.
C9_Witness ==
    /\ kw = "Device Should Have Alarm/s"
    /\ got.tag = "AssertionError"
    /\ outcome = "raise"
    /\ Len(calls) = 1

\* The keywords that call a second client method when the first returned.
TwoCallKeywords ==
    ContextKeywords \cup
    {"Delete Managed Object And Device User",
     "Should Have Device Profile Installed",
     "Should Not Have Device Profile Installed"}

\* The client methods the two-call keywords call first.
FirstCalls == {"identity.assert_exists", "inventory.assert_exists"}

\* C10 as stated: every keyword calls exactly one client method per
\* invocation.
C10_ExactlyOneCall == IsKeyword => Len(calls) = 1

\* C10, amended: a keyword calls exactly one client method per invocation,
\* except that the context keywords, "Delete Managed Object And Device User"
\* and the two device-profile assertions call a second method once the first
\* has returned, and that no client method is called when the keyword's own
\* argument processing raises or when "Log Device Info" has no device id.
C10_OneCallButForTwoStepAndEarlyExit ==
    IsKeyword =>
        /\ Len(calls) <= 2
        /\ Len(calls) = 2 <=>
             /\ kw \in TwoCallKeywords
             /\ \/ outcome = "return"
                \/ calls[Len(calls)] \notin FirstCalls
        /\ Len(calls) = 0 <=>
             \/ error.type \in {"ValueError", "OSError"}
             \/ /\ kw = "Log Device Info"
                /\ \/ given.device_id = EmptyDeviceId
                   \/ /\ given.device_id = NoDevice
                      /\ device_id = NoDevice

\* A keyword that returned after two calls of the client.
C10_Witness ==
    /\ kw = "Should Have Device Profile Installed"
    /\ outcome = "return"
    /\ Len(calls) = 2

\* C11: every keyword that accepts extra keyword arguments hands each of
\* them on unchanged, as a keyword argument, to the client method it calls.
C11_KwargsForwardedVerbatim ==
    (/\ IsKeyword
     /\ "kwargs" \in DOMAIN given
     /\ DOMAIN given.kwargs # {}
     /\ calls # <<>>) =>
        /\ sent.args = <<>>
        /\ \A k \in DOMAIN given.kwargs :
             /\ k \in DOMAIN sent.kwargs
             /\ sent.kwargs[k] = given.kwargs[k]

(* ------------------------- software properties ------------------------ *)

\* The last operation was a software keyword called with items.
IsSoftwareCall ==
    given.tag = "software" /\ kw \in {f[1] : f \in SoftwareKeywords}

\* The item is a text with none of the characters that make json objects,
\* arrays and strings.
IsCsv(item) ==
    IF item.tag # "str" THEN FALSE
    ELSE \A i \in 1..Len(item.val) :
             item.val[i] \notin {"{", "}", "[", "]", Quote}

\* C12: the software-list parser turns each csv item "<name>,<version>,<url>"
\* into one Software item whose name, version and url are its first, second
\* and third field, a blank field staying blank and a missing one unset, and
\* the items come out in the same number and order.
C12_CsvItemsBecomeSoftware ==
    (IsSoftwareCall /\ \A i \in 1..Len(given.items) : IsCsv(given.items[i])) =>
        /\ calls # <<>>
        /\ Len(sent.items) = Len(given.items)
        /\ \A i \in 1..Len(given.items), n \in 1..3 :
             LET fields == SplitAll(given.items[i].val, ",")
             IN  sent.items[i][SoftwarePositional[n]]
                   = IF n <= Len(fields) THEN Str(fields[n]) ELSE Unset

\* C13: a text item that is a json object becomes a Software item with the
\* object's fields, and a text item that is json but neither a dictionary
\* nor a text (an array) raises ValueError before the client is called.
C13_OnlyCsvOrJsonDictionary ==
    (IsSoftwareCall
       /\ \A i \in 1..Len(given.items) : given.items[i].tag = "str") =>
        LET n == Len(given.items)
            parsed(i) == JsonLoads(given.items[i].val)
            neither == {i \in 1..n :
                          /\ ~IsCsv(given.items[i])
                          /\ parsed(i).tag \in {"list", "num", "bool", "null"}}
        IN  /\ neither # {} =>
                 /\ outcome = "raise"
                 /\ error.type = "ValueError"
                 /\ calls = <<>>
            /\ calls # <<>> =>
                 /\ Len(sent.items) = n
                 /\ \A i \in 1..n :
                      parsed(i).tag = "dict" =>
                          \A k \in DOMAIN parsed(i).val :
                              (k # <<"action">> \/ Truthy(parsed(i).val[k]))
                                  => sent.items[i][k[1]] = parsed(i).val[k]

\* A json object, then a json array: ValueError, and no call of the client.
C13_Witness ==
    /\ IsSoftwareCall
    /\ Len(given.items) = 2
    /\ given.items[1] = Str(SoftwareJson("pkg", "delete"))
    /\ given.items[2] = Str(<<"[", "1", "]">>)
    /\ outcome = "raise"
    /\ error.type = "ValueError"
    /\ calls = <<>>

\* C14: "Device Should Have Installed Software" takes a dictionary object as
\* an item and makes a Software item with the dictionary's fields of it.
C14_DictionaryObjectItems ==
    (/\ IsSoftwareCall
     /\ kw = "Device Should Have Installed Software"
     /\ \A i \in 1..Len(given.items) : given.items[i].tag = "dict") =>
        /\ calls # <<>>
        /\ Len(sent.items) = Len(given.items)
        /\ \A i \in 1..Len(given.items) :
             \A k \in DOMAIN given.items[i].val :
                 sent.items[i][k[1]] = given.items[i].val[k]

\* C15: "Install/Uninstall Software" forwards each csv item with the action
\* it names as its fourth field, and with the action "install" when the
\* fourth field is missing or blank.
C15_ExplicitActionKeptElseInstall ==
    (IsSoftwareCall /\ kw = "Install/Uninstall Software" /\ calls # <<>>) =>
        \A i \in 1..Len(given.items) :
            IsCsv(given.items[i]) =>
                LET fields == SplitAll(given.items[i].val, ",")
                IN  sent.items[i].action
                      = IF Len(fields) >= 4 /\ fields[4] # <<>>
                        THEN Str(fields[4])
                        ELSE Str(<<"install">>)

\* An item with the action "delete" and an item with a name only, forwarded
\* as "delete" and as "install".
C15_Witness ==
    /\ IsSoftwareCall
    /\ kw = "Install/Uninstall Software"
    /\ calls = <<"software_management.update">>
    /\ given.items = <<Str(<<"pkg", ",", "1", ",", "url", ",", "delete">>),
                       Str(<<"pkg">>)>>
    /\ sent.items[1].action = Str(<<"delete">>)
    /\ sent.items[2].action = Str(<<"install">>)

(* ---------------------- fragment value properties --------------------- *)

\* The last operation was a fragment-values keyword that called the client.
IsFragmentValuesCall ==
    /\ given.tag = "properties"
    /\ kw \in {f[1] : f \in FragmentValuesKeywords}
    /\ calls # <<>>

\* The property is a "key=value" text whose key is in dot notation.
IsKeyValue(item) ==
    IF item.tag # "str" THEN FALSE
    ELSE /\ ~InBraces(item.val)
         /\ is_dot_notation(Strip(Partition(item.val, "=")[1]))

\* The parts of the key of a "key=value" text.
KeyParts(item) == SplitAll(Strip(Partition(item.val, "=")[1]), ".")

\* The text after the first "=" of a "key=value" text.
ValueText(item) == Partition(item.val, "=")[3]

\* The mapping has a value under the path.
RECURSIVE HasPath(_, _)
HasPath(d, path) ==
    /\ path[1] \in DOMAIN d
    /\ \/ Len(path) = 1
       \/ /\ d[path[1]].tag = "dict"
          /\ HasPath(d[path[1]].val, Tail(path))

\* The value under the path.
RECURSIVE ValueAt(_, _)
ValueAt(d, path) ==
    IF Len(path) = 1 THEN d[path[1]] ELSE ValueAt(d[path[1]].val, Tail(path))

\* The mapping with the value under the path and nothing else.
RECURSIVE Nested(_, _)
Nested(path, v) ==
    [k \in {path[1]} |->
        IF Len(path) = 1 THEN v ELSE Dict(Nested(Tail(path), v))]

\* The last property of the call.
LastProperty == given.properties[Len(given.properties)]

\* C16: a property "k1.k2...kn=value" reaches the client as the nested
\* mapping {k1: {k2: ... {kn: value}}}, and a key without dots as a
\* top-level key.
C16_DotNotationExpanded ==
    (IsFragmentValuesCall /\ given.properties # <<>>
       /\ IsKeyValue(LastProperty)) =>
        LET path == KeyParts(LastProperty)
            value == TypedValue(Strip(ValueText(LastProperty)))
        IN  /\ HasPath(sent.values, path)
            /\ ValueAt(sent.values, path) = value
            /\ Len(path) = 1 => sent.values[path[1]] = value
            /\ Len(given.properties) = 1 => sent.values = Nested(path, value)

\* "a.b.c=true" alone, sent as {a: {b: {c: true}}}.
C16_Witness ==
    /\ IsFragmentValuesCall
    /\ given.properties = <<Str(<<"a", ".", "b", ".", "c", "=", "true">>)>>
    /\ sent.values = [k \in {<<"a">>} |->
                        Dict([l \in {<<"b">>} |->
                                Dict([m \in {<<"c">>} |-> Bool(TRUE)])])]

\* The text has no space at either end.
NoOuterSpace(t) == t = <<>> \/ (t[1] # " " /\ t[Len(t)] # " ")

\* C17: key and value of a property are stripped of surrounding whitespace;
\* the value is what json.loads gives for it when it is valid json and the
\* stripped text otherwise; a property with no "=" gives its key with ""
\* as value.
C17_ValueStrippedAndTyped ==
    (IsFragmentValuesCall /\ given.properties # <<>>
       /\ IsKeyValue(LastProperty)) =>
        LET path == KeyParts(LastProperty)
            text == ValueText(LastProperty)
            stored == ValueAt(sent.values, path)
        IN  /\ HasPath(sent.values, path)
            /\ NoOuterSpace(path[1] \o path[Len(path)])
            /\ stored.tag = "str" => NoOuterSpace(stored.val)
            /\ IF JsonLoads(text).tag = "JSONDecodeError"
               THEN stored.tag = "str" /\ stored.val = Strip(text)
               ELSE stored = JsonLoads(text)
            /\ Find(LastProperty.val, "=", 1) = 0 => stored = Str(<<>>)

\* " status= down now " sent as {status: "down now"}, after a property with
\* no "=" and a number as value.
C17_Witness ==
    /\ IsFragmentValuesCall
    /\ given.properties
         = <<Str(<<"c8y_Hardware", ".", "serialNumber", " ", "=", " ", "1">>),
             Str(<<" ", "status", "=", " ", "down", " ", "now", " ">>)>>
    /\ sent.values[<<"status">>] = Str(<<"down", " ", "now">>)
    /\ sent.values[<<"c8y_Hardware">>].val[<<"serialNumber">>] = Num(<<"1">>)

\* The dictionary of a property that is a dictionary object or the text of
\* a json object.
ObjectOf(item) ==
    IF item.tag = "dict" THEN item.val ELSE JsonLoads(item.val).val

\* The property is a dictionary object or a json object in braces.
IsObject(item) ==
    \/ item.tag = "dict"
    \/ /\ item.tag = "str"
       /\ InBraces(item.val)
       /\ JsonLoads(item.val).tag = "dict"

\* C18: a property that is a dictionary, or a text from "{" to "}", is
\* merged key by key into the mapping sent to the client, and nothing is
\* raised.
C18_DictionariesMerged ==
    (/\ given.tag = "properties"
     /\ kw \in {f[1] : f \in FragmentValuesKeywords}
     /\ given.properties # <<>>
     /\ \A i \in 1..Len(given.properties) : IsObject(given.properties[i])) =>
        /\ calls # <<>>
        /\ \A k \in DOMAIN ObjectOf(LastProperty) :
             /\ k \in DOMAIN sent.values
             /\ sent.values[k] = ObjectOf(LastProperty)[k]

(* ---------------------- Create Operation properties ------------------- *)

\* C19: "Create Operation" parses text fragments as json, takes None as no
\* fragments, and sends description, fragments and kwargs merged in this
\* order: kwargs win over fragments, and both over the description argument.
C19_OperationBodyMerged ==
    (kw = "Create Operation" /\ given.tag = "operation" /\ calls # <<>>) =>
        LET fragments == IF given.fragments.tag = "null" THEN <<>>
                         ELSE IF given.fragments.tag = "str"
                              THEN JsonLoads(given.fragments.val).val
                              ELSE given.fragments.val
            body == sent.kwargs
        IN  /\ DOMAIN body = {<<"description">>} \cup DOMAIN fragments
                               \cup DOMAIN given.kwargs
            /\ \A k \in DOMAIN body :
                 body[k] = IF k \in DOMAIN given.kwargs THEN given.kwargs[k]
                           ELSE IF k \in DOMAIN fragments THEN fragments[k]
                           ELSE Str(given.description)

\* Fragments with a description of their own and kwargs with a fragment of
\* the same name: the description of the fragments and the fragment of the
\* kwargs are sent.
C19_Witness ==
    /\ kw = "Create Operation"
    /\ given.tag = "operation"
    /\ calls = <<"create_operation">>
    /\ given.description = DefaultDescription
    /\ given.kwargs = [k \in {<<"c8y_Command">>} |-> Str(<<"pwd">>)]
    /\ sent.kwargs = [k \in {<<"description">>, <<"c8y_Command">>} |->
                         IF k = <<"description">> THEN Str(<<"mine">>)
                         ELSE Str(<<"pwd">>)]

(* ------------------------ serialization properties -------------------- *)

\* The last operation returned _convert_to_json of the client's result.
IsJsonReturn ==
    /\ given.tag = "json"
    /\ kw \in {f[1] : f \in JsonKeywords}
    /\ outcome = "return"

\* to_json() of the item, with "id" set when the item has an id and the
\* output is not empty; the item itself when it has no to_json.
Serialized(item) ==
    IF ~item.has_to_json THEN Raw(item)
    ELSE IF item.has_id /\ DOMAIN item.json # {}
    THEN Dict([k \in DOMAIN item.json \cup {"id"} |->
                  IF k = "id" THEN item.id ELSE item.json[k]])
    ELSE Dict(item.json)

\* C20 as stated: a result with to_json is returned as to_json() with its
\* id, a result without to_json is returned unchanged, and a list is
\* converted element by element, in the same number and order.
C20_ResultsSerialized ==
    IsJsonReturn =>
        IF got.val.is_list
        THEN /\ result.tag = "list"
             /\ Len(result.val) = Len(got.val.val)
             /\ \A i \in 1..Len(got.val.val) :
                  result.val[i] = Serialized(got.val.val[i])
        ELSE result = Serialized(got.val.val)

\* What _convert_item gives: the empty string for a result that is false in
\* Python, the serialized result otherwise.
SerializedOrEmpty(item) ==
    IF ~item.truthy THEN Str("") ELSE Serialized(item)

\* C20, amended: a result that is false in Python (None, empty bytes, an
\* empty dictionary) is returned as the empty string; every other result as
\* stated.
C20_FalseResultsBecomeEmptyString ==
    IsJsonReturn =>
        IF got.val.is_list
        THEN /\ result.tag = "list"
             /\ Len(result.val) = Len(got.val.val)
             /\ \A i \in 1..Len(got.val.val) :
                  result.val[i] = SerializedOrEmpty(got.val.val[i])
        ELSE result = SerializedOrEmpty(got.val.val)

\* A list of an empty result and an object with an id: the empty string and
\* the object's json with its id.
C20_Witness ==
    /\ IsJsonReturn
    /\ got.val.is_list
    /\ got.val.val = <<Plain(FALSE), ClientObject(1, "alarm")>>
    /\ result.val[1] = Str("")
    /\ result.val[2].tag = "dict"
    /\ result.val[2].val["id"] = 1

(* ------------------------ device id properties ------------------------ *)

\* C21: "Log Device Info" uses the given device_id when it is not None and
\* the device context when it is None; with no id (None or empty) it calls
\* no client method and returns, and otherwise it asks the client for the
\* managed object of that id.
C21_LogDeviceInfoDevice ==
    [][kw' = "Log Device Info" =>
          LET id == IF given'.device_id = NoDevice THEN device_id
                    ELSE given'.device_id
          IN  IF id \in {NoDevice, EmptyDeviceId}
              THEN /\ calls' = <<>>
                   /\ outcome' = "return"
                   /\ sent' = NoArgs
              ELSE /\ calls' = <<"inventory.assert_exists">>
                   /\ sent'.device_id = id]_vars

\* No device_id given and a device set: the client is asked for the device
\* of the context.
C21_Witness ==
    /\ kw = "Log Device Info"
    /\ given.device_id = NoDevice
    /\ device_id \in MoIds
    /\ calls = <<"inventory.assert_exists">>
    /\ sent.device_id = device_id

\* The keywords that install a device profile or assert on one.
ProfileKeywords ==
    {"Install Device Profile", "Should Have Device Profile Installed",
     "Should Not Have Device Profile Installed"}

\* C22 as stated: the three device-profile keywords act on the device_id
\* that is given and on the device context when none (None) is given, and
\* leave the device context as it was.
C22_GivenDeviceElseContext ==
    [][kw' \in ProfileKeywords =>
          /\ device_id' = device_id
          /\ sent'.device_id = IF given'.device_id = NoDevice THEN device_id
                               ELSE given'.device_id]_vars

\* C22, amended: "Install Device Profile" acts on the given device_id unless
\* it is None or empty, the two assertions unless it is None; otherwise they
\* act on the device context; none of them changes the device context.
C22_GivenDeviceElseContextPerKeyword ==
    [][kw' \in ProfileKeywords =>
          /\ device_id' = device_id
          /\ calls' # <<>>
          /\ sent'.device_id
               = IF \/ given'.device_id = NoDevice
                    \/ /\ given'.device_id = EmptyDeviceId
                       /\ kw' = "Install Device Profile"
                 THEN device_id
                 ELSE given'.device_id]_vars

\* An assertion on a device other than the device of the context.
C22_Witness ==
    /\ kw = "Should Have Device Profile Installed"
    /\ device_id \in MoIds
    /\ given.device_id \in MoIds
    /\ given.device_id # device_id
    /\ sent.device_id = given.device_id
    /\ Len(calls) = 2

====
